---- MODULE Spec2Model ----
(***************************************************************************)
(* Hibernot (src/src/index.ts, class Hibernot, lines 94-265): an           *)
(* inactivity timer that calls keepAliveFn, with retries, when no activity *)
(* was registered for inactivityLimit.                                     *)
(*                                                                         *)
(* Time is counted in whole seconds and kept relative to the present:      *)
(* Date.now() is the origin 0, a stored timestamp is <= 0, a timer holds   *)
(* the time left until it is due, and Tick moves every stored time one     *)
(* second into the past.  A time further back than inactivityLimit is kept *)
(* as -inactivityLimit: the code compares ages with inactivityLimit only.  *)
(* The host, the timers and the promises all run on the one Node.js event  *)
(* loop, so every action below is one run-to-completion task of that loop. *)
(***************************************************************************)
EXTENDS Integers, FiniteSets, Bags, TLC

\* Bounds of the model.
MaxLimit == 2
MaxRetries == 1
MaxTimers == 3
MaxFirings == 2
MaxCount == 2

\* setTimeout(resolve, 1000) at index.ts:231, in seconds.
RetryDelay == 1
\* maxRetryAttempts when the configuration gives none, index.ts:127.
DefaultMaxRetryAttempts == 3
\* Date.now(): the present is the origin of the time axis.
DateNow == 0
\* The empty timer handle (inactivityTimeout = null, index.ts:100).
null == 0

TimerIds == 1..MaxTimers
\* An optional number is <<n>> when given and << >> when undefined.
Undefined == << >>
Given(n) == <<n>>
NoTimers == [i \in {} |-> 0]

VARIABLES
    args,                   \* history: the argument new Hibernot() was given
    thrown,                 \* what the constructor threw
    config,                 \* this.config, index.ts:102 and 125-128
    keepAliveFn,            \* config.keepAliveFn: how the user's function settles
    activityCount,          \* index.ts:96
    lastActivityTimestamp,  \* index.ts:98
    inactivityTimeout,      \* index.ts:100: handle of the last timer armed
    timers,                 \* the event loop's pending deadline timers
    firings,                \* bag of the timer callbacks suspended in an await
    lastRegisterAt,         \* history: time of the last registerActivity()
    stopped,                \* history: stop() called, no start() since
    firingAtStop,           \* history: a callback was in progress at that stop()
    activitySinceStop,      \* history: the host registered activity since
    follow,                 \* history: whether firings are marked as followed
    ev                      \* history: what the last step did

vars == <<args, thrown, config, keepAliveFn, activityCount, lastActivityTimestamp,
          inactivityTimeout, timers, firings, lastRegisterAt, stopped,
          firingAtStop, activitySinceStop, follow, ev>>

Min(a, b) == IF a <= b THEN a ELSE b
Max(a, b) == IF a >= b THEN a ELSE b

\* The state of the Hibernot object together with the timers it armed.
This ==
    [activityCount |-> activityCount,
     lastActivityTimestamp |-> lastActivityTimestamp,
     inactivityTimeout |-> inactivityTimeout,
     timers |-> timers]

Becomes(s) ==
    /\ activityCount' = s.activityCount
    /\ lastActivityTimestamp' = s.lastActivityTimestamp
    /\ inactivityTimeout' = s.inactivityTimeout
    /\ timers' = s.timers

\* ---- Node.js timers ----------------------------------------------------

\* clearTimeout(h): a handle whose timer already ran or was cleared is ignored.
clearTimeout(T, h) == [i \in (DOMAIN T) \ {h} |-> T[i]]

FreeTimer(T) ==
    CHOOSE i \in TimerIds \ DOMAIN T : \A j \in TimerIds \ DOMAIN T : i <= j

\* setTimeout(callback, delay): the handle of the new pending timer.
setTimeout(T, delay) == [i \in (DOMAIN T) \cup {FreeTimer(T)} |->
                            IF i \in DOMAIN T THEN T[i] ELSE delay]

\* One handler may arm twice (registerActivity, then the finally block).
RoomToArm == Cardinality(DOMAIN timers) + 2 <= MaxTimers

\* ---- Hibernot ----------------------------------------------------------

\* Mutant: the previous timer is not cleared before the new one is armed.
resetInactivityTimeout_noClear(s) ==
    [s EXCEPT !.inactivityTimeout = FreeTimer(s.timers),
              !.timers = setTimeout(s.timers, config.inactivityLimit)]

\* index.ts:181-186 and 206: clear the timer of the handle, arm a new one.
resetInactivityTimeout(s) ==
    LET cleared == IF s.inactivityTimeout # null
                   THEN clearTimeout(s.timers, s.inactivityTimeout)
                   ELSE s.timers
    IN  [s EXCEPT !.inactivityTimeout = FreeTimer(cleared),
                  !.timers = setTimeout(cleared, config.inactivityLimit)]

\* Mutant: registerActivity returns after counting.
registerActivity_countOnly(s) ==
    [s EXCEPT !.activityCount = Min(@ + 1, MaxCount)]

\* Mutant: the activity is recorded and the timer left as it is.
registerActivity_noRearm(s) ==
    [s EXCEPT !.activityCount = Min(@ + 1, MaxCount),
              !.lastActivityTimestamp = DateNow]

\* index.ts:151-155.  Counts from MaxCount on are kept as MaxCount.
registerActivity(s) ==
    resetInactivityTimeout(
        [s EXCEPT !.activityCount = Min(@ + 1, MaxCount),
                  !.lastActivityTimestamp = DateNow])

\* Mutant: the reset also forgets when the last activity was.
resetActivityCount_forgetTimestamp(s) ==
    [s EXCEPT !.activityCount = 0,
              !.lastActivityTimestamp = 0 - config.inactivityLimit]

\* Mutant: the reset also restarts the inactivity window.
resetActivityCount_andTimestamp(s) ==
    [s EXCEPT !.activityCount = 0, !.lastActivityTimestamp = DateNow]

\* index.ts:169-171.
resetActivityCount(s) == [s EXCEPT !.activityCount = 0]

\* Mutant: as the handler at index.ts:25-30, which only resets the timer.
middlewareHandler_timerOnly(s) ==
    [state |-> resetInactivityTimeout(s),
     called |-> <<"resetInactivityTimeout", "next">>]

\* index.ts:140-143, the handler middleware() returns: the state it leaves
\* and the calls it makes.
middlewareHandler(s) ==
    [state |-> registerActivity(s),
     called |-> <<"registerActivity", "next">>]

\* a || b of JavaScript for an optional string a: b when a is undefined or
\* the empty string.
Or(a, b) == IF a # Undefined /\ a # Given("") THEN a[1] ELSE b

\* Mutant: reading the statistics starts a new count.
getStats_andReset(s) ==
    [state |-> [s EXCEPT !.activityCount = 0],
     returned |-> [activityCount |-> s.activityCount,
                   lastActivityTimestamp |-> s.lastActivityTimestamp,
                   instanceName |-> Or(config.instanceName, "Unnamed")]]

\* index.ts:247-253: the state getStats() leaves and the value it returns.
getStats(s) ==
    [state |-> s,
     returned |-> [activityCount |-> s.activityCount,
                   lastActivityTimestamp |-> s.lastActivityTimestamp,
                   instanceName |-> Or(config.instanceName, "Unnamed")]]

\* Mutant: start() counts as an activity.
start_registerActivity(s) == registerActivity(s)

\* Mutant: start() arms nothing.
start_noArm(s) == s

\* index.ts:161-163.
start(s) == resetInactivityTimeout(s)

\* Mutant: stop forgets the handle without clearing its timer.
stop_noClear(s) == [s EXCEPT !.inactivityTimeout = null]

\* Mutant: stop clears the timer and keeps the handle.
stop_keepHandle(s) ==
    IF s.inactivityTimeout # null
    THEN [s EXCEPT !.timers = clearTimeout(s.timers, s.inactivityTimeout)]
    ELSE s

\* index.ts:259-264.
stop(s) ==
    IF s.inactivityTimeout # null
    THEN [s EXCEPT !.timers = clearTimeout(s.timers, s.inactivityTimeout),
                   !.inactivityTimeout = null]
    ELSE s

\* Mutant: the limit has to be exceeded, not reached.
inactivityLimitReached_strict(msSinceLastActivity) ==
    msSinceLastActivity > config.inactivityLimit

\* index.ts:189.
inactivityLimitReached(msSinceLastActivity) ==
    msSinceLastActivity >= config.inactivityLimit

\* Mutant: the timer is rearmed only by the activity a success registers.
finallyBlock_noRearm(s) == s

\* Mutant: the callback registers the activity in its finally block, so also
\* after an exhausted firing.
finallyBlock_registerActivity(s) == registerActivity(s)

\* index.ts:202-205: the finally block of the timer callback.
finallyBlock(s) == resetInactivityTimeout(s)

\* index.ts:218: const maxAttempts = this.config.maxRetryAttempts ?? 3.
maxAttempts ==
    IF config.maxRetryAttempts # Undefined THEN config.maxRetryAttempts[1]
    ELSE DefaultMaxRetryAttempts

\* Mutant: the loop has no bound.
loopContinues_always(attempt) == attempt >= 1

\* index.ts:219: the loop condition attempt <= maxAttempts.
loopContinues(attempt) == attempt <= maxAttempts

\* Mutant: the delay is awaited after every failed attempt, the last included.
waitsBeforeRetry_always(attempt) == attempt <= maxAttempts

\* index.ts:230: wait before the next retry unless this was the last attempt.
waitsBeforeRetry(attempt) == attempt < maxAttempts

\* ---- history -----------------------------------------------------------

\* What a step did: op names it; began and invoked tell whether it began a
\* firing and called keepAliveFn; again whether it repeats the step before;
\* ended, calls and waits describe the firing it
\* ended; warned and errored hold what it passed to console.warn and
\* console.error; escaped tells whether an error left the timer callback;
\* returned holds the value the operation returned, called the calls the
\* middleware handler made, in their order; afterStop tells whether stop()
\* had been called and start() not yet.
Event(op) == [op |-> op, again |-> FALSE, began |-> FALSE, invoked |-> FALSE,
              ended |-> "no", calls |-> 0, waits |-> 0,
              warned |-> {}, errored |-> {}, escaped |-> FALSE,
              returned |-> {}, called |-> << >>, afterStop |-> FALSE]

\* Errors: the rejection of the attempt-th call of keepAliveFn (an Error, or
\* the value undefined when keepAliveFn rejects with no reason), the error
\* executeKeepAliveWithRetries makes itself (index.ts:236), and no error.
Rejection(attempt) ==
    [name |-> IF keepAliveFn = "rejectsUndefined" THEN "undefined" ELSE "Error",
     attempt |-> attempt]
HibernotError == [name |-> "HibernotError", attempt |-> 0]
NoError == [name |-> "null", attempt |-> 0]

\* The values JavaScript's || takes as true: every object, neither null nor
\* undefined.
Truthy(e) == e.name \notin {"null", "undefined"}

\* index.ts:236: throw lastError || new HibernotError(...).
thrownAfterLoop(lastError) ==
    IF Truthy(lastError) THEN lastError ELSE HibernotError

\* Mutant: the callback logs the error and throws it again.
callbackCatch_rethrow(err) == [errored |-> {err}, escaped |-> TRUE]

\* index.ts:199-201: catch (err) of the timer callback logs and swallows.
callbackCatch(err) == [errored |-> {err}, escaped |-> FALSE]

\* A timer callback suspended in an await is kept as a record: pc is the await
\* it is in, attempt the loop variable of index.ts:219, wait the time left of
\* its retry delay, calls and waits count its calls of keepAliveFn and its
\* retry delays.  Callbacks in the same state are not told apart.
FiringInProgress == firings # EmptyBag

\* To tell one firing from the others, a behaviour of FiringSpec marks
\* firings as followed, one at a time and chosen freely.
Followed == \E f \in BagToSet(firings) : f.followed

AddFiring(f) == firings (+) SetToBag({f})

EndFiring(f) == firings (-) SetToBag({f})

\* A stored time one second later: one second further in the past.
Aged(t) == Max(t - 1, 0 - config.inactivityLimit)

\* ---- construction ------------------------------------------------------

\* A field of the argument of new Hibernot(): a number, nothing, or a value
\* of another type.
Number(n) == [type |-> "number", value |-> n]
Missing == [type |-> "undefined", value |-> 0]
NotANumber == [type |-> "string", value |-> 0]

\* keepAliveFn is a function, told by how its calls settle ("failsFirst"
\* rejects the first call of every firing and resolves the later ones,
\* "rejectsUndefined" rejects every call with the value undefined), or it
\* is missing, or it is no function.
Functions ==
    {"resolves", "rejects", "either", "failsFirst", "rejectsUndefined"}

\* What new Hibernot() may be given, HibernotConfig at index.ts:77-82.
ConstructorArgs ==
    [inactivityLimit : {Number(n) : n \in (0 - 1)..MaxLimit}
                           \cup {Missing, NotANumber},
     keepAliveFn : Functions \cup {"undefined", "notAFunction"},
     maxRetryAttempts : {Number(n) : n \in (0 - 1)..MaxRetries}
                           \cup {Missing, NotANumber},
     instanceName : {Undefined, Given(""), Given("API")}]

NotThrown == [name |-> "none", message |-> ""]

Constructed == thrown = NotThrown

\* Mutant: the limit is checked with < 0, so that 0 is accepted.
constructorError_zeroLimit(a) ==
    IF a.inactivityLimit.type # "number" \/ a.inactivityLimit.value < 0
    THEN [name |-> "HibernotError",
          message |-> "inactivityLimit must be a positive number"]
    ELSE IF a.keepAliveFn \notin Functions
    THEN [name |-> "HibernotError",
          message |-> "keepAliveFn must be a valid async function"]
    ELSE IF /\ a.maxRetryAttempts.type # "undefined"
            /\ (a.maxRetryAttempts.type # "number"
                    \/ a.maxRetryAttempts.value < 0)
    THEN [name |-> "HibernotError",
          message |-> "maxRetryAttempts must be a non-negative number"]
    ELSE NotThrown

\* The validation of the constructor, index.ts:111-122.
constructorError(a) ==
    IF a.inactivityLimit.type # "number" \/ a.inactivityLimit.value <= 0
    THEN [name |-> "HibernotError",
          message |-> "inactivityLimit must be a positive number"]
    ELSE IF a.keepAliveFn \notin Functions
    THEN [name |-> "HibernotError",
          message |-> "keepAliveFn must be a valid async function"]
    ELSE IF /\ a.maxRetryAttempts.type # "undefined"
            /\ (a.maxRetryAttempts.type # "number"
                    \/ a.maxRetryAttempts.value < 0)
    THEN [name |-> "HibernotError",
          message |-> "maxRetryAttempts must be a non-negative number"]
    ELSE NotThrown

\* The configurations the constructor accepts, index.ts:110-122.
Configs ==
    [inactivityLimit : 0..MaxLimit,
     maxRetryAttempts : {Given(n) : n \in 0..MaxRetries} \cup {Undefined},
     instanceName : {Undefined, Given(""), Given("API")}]

\* An argument that passed the validation, as a configuration.
AsConfig(a) ==
    [inactivityLimit |-> a.inactivityLimit.value,
     maxRetryAttempts |-> IF a.maxRetryAttempts.type = "undefined"
                          THEN Undefined
                          ELSE Given(a.maxRetryAttempts.value),
     instanceName |-> a.instanceName]

\* index.ts:125-128.
constructorConfig(c) ==
    [c EXCEPT !.maxRetryAttempts =
        IF c.maxRetryAttempts # Undefined THEN c.maxRetryAttempts
        ELSE Given(DefaultMaxRetryAttempts)]

\* this.config is not assigned when the constructor throws.
NoConfig ==
    [inactivityLimit |-> 0, maxRetryAttempts |-> Undefined,
     instanceName |-> Undefined]

\* The fields as their initializers leave them, index.ts:96-100.
Fields ==
    [activityCount |-> 1,
     lastActivityTimestamp |-> DateNow,
     inactivityTimeout |-> null,
     timers |-> NoTimers]

\* The state after new Hibernot(a): index.ts:96-100 and 110-131.  When the
\* validation throws, nothing was armed and no object is returned.
Construct(a) ==
    /\ args = a
    /\ thrown = constructorError(args)
    /\ keepAliveFn = args.keepAliveFn
    /\ config = IF Constructed THEN constructorConfig(AsConfig(args))
                ELSE NoConfig
    /\ LET s == IF Constructed THEN start(Fields) ELSE Fields
       IN  /\ activityCount = s.activityCount
           /\ lastActivityTimestamp = s.lastActivityTimestamp
           /\ inactivityTimeout = s.inactivityTimeout
           /\ timers = s.timers
    /\ firings = EmptyBag
    /\ lastRegisterAt = 0 - config.inactivityLimit
    /\ stopped = FALSE
    /\ firingAtStop = FALSE
    /\ activitySinceStop = FALSE
    /\ ev = Event("constructor")

Init == \E a \in ConstructorArgs : Construct(a) /\ follow = FALSE

\* ---- the host ---------------------------------------------------------

\* The host calls registerActivity(), index.ts:151-155.
HostRegisterActivity ==
    /\ Constructed
    /\ RoomToArm
    /\ Becomes(registerActivity(This))
    /\ lastRegisterAt' = DateNow
    /\ activitySinceStop' = (activitySinceStop \/ stopped)
    /\ ev' = Event("registerActivity")
    /\ UNCHANGED <<args, thrown, follow, config, keepAliveFn, firings, stopped, firingAtStop>>

\* A request passes the handler middleware() returned, index.ts:139-144.
Middleware ==
    /\ Constructed
    /\ RoomToArm
    /\ Becomes(middlewareHandler(This).state)
    /\ lastRegisterAt' = DateNow
    /\ activitySinceStop' = (activitySinceStop \/ stopped)
    /\ ev' = [Event("middleware") EXCEPT
                !.called = middlewareHandler(This).called]
    /\ UNCHANGED <<args, thrown, follow, config, keepAliveFn, firings, stopped, firingAtStop>>

\* The host calls start(), index.ts:161-163.
HostStart ==
    /\ Constructed
    /\ RoomToArm
    /\ Becomes(start(This))
    /\ stopped' = FALSE
    /\ firingAtStop' = FALSE
    /\ activitySinceStop' = FALSE
    /\ ev' = [Event("start") EXCEPT !.afterStop = stopped]
    /\ UNCHANGED <<args, thrown, follow, config, keepAliveFn, firings, lastRegisterAt>>

\* The host calls resetActivityCount(), index.ts:169-171.
HostResetActivityCount ==
    /\ Constructed
    /\ Becomes(resetActivityCount(This))
    /\ ev' = Event("resetActivityCount")
    /\ UNCHANGED <<args, thrown, follow, config, keepAliveFn, firings, lastRegisterAt,
                   stopped, firingAtStop, activitySinceStop>>

\* The host calls getStats(), index.ts:247-253.
HostGetStats ==
    /\ Constructed
    /\ Becomes(getStats(This).state)
    /\ ev' = [Event("getStats") EXCEPT !.returned = {getStats(This).returned}]
    /\ UNCHANGED <<args, thrown, follow, config, keepAliveFn, firings, lastRegisterAt,
                   stopped, firingAtStop, activitySinceStop>>

\* The host calls stop(), index.ts:259-264.
HostStop ==
    /\ Constructed
    /\ Becomes(stop(This))
    /\ stopped' = TRUE
    /\ firingAtStop' = FiringInProgress
    /\ activitySinceStop' = FALSE
    /\ ev' = [Event("stop") EXCEPT !.again = (ev.op = "stop")]
    /\ UNCHANGED <<args, thrown, follow, config, keepAliveFn, firings, lastRegisterAt>>

\* ---- the timer callback, index.ts:186-206 ------------------------------

\* Mutant: as dist/index.js, only the timestamp is refreshed after a success.
afterKeepAlive_timestampOnly(s) ==
    resetInactivityTimeout([s EXCEPT !.lastActivityTimestamp = DateNow])

\* index.ts:195-197: after executeKeepAliveWithRetries() returned, the
\* callback registers an activity.
afterKeepAlive(s) == registerActivity(s)

\* How the call of keepAliveFn the firing f awaits may settle: TRUE resolves,
\* FALSE rejects.
Outcomes(f) ==
    CASE keepAliveFn = "resolves" -> {TRUE}
      [] keepAliveFn \in {"rejects", "rejectsUndefined"} -> {FALSE}
      [] keepAliveFn = "failsFirst" -> {f.calls >= 2}
      [] OTHER -> {TRUE, FALSE}

Ended(e, how, f) ==
    [e EXCEPT !.ended = how, !.calls = f.calls, !.waits = f.waits]

\* index.ts:199-205: executeKeepAliveWithRetries threw; catch logs, finally
\* rearms.  s is the object as the callback finds it.
Exhausted(e, f, began, s) ==
    /\ Becomes(finallyBlock(s))
    /\ ev' = LET caught == callbackCatch(thrownAfterLoop(f.lastError))
             IN  [Ended(e, "exhausted", f) EXCEPT !.began = began,
                                                  !.errored = caught.errored,
                                                  !.escaped = caught.escaped]
    /\ UNCHANGED lastRegisterAt

\* index.ts:219-221: the loop test, then the call of keepAliveFn that is awaited.
\* f is the firing with attempt already set; old holds the suspended firing it
\* continues, and is empty when the callback has not been suspended yet.
Attempt(e, old, f, began, s) ==
    IF loopContinues(f.attempt)
    THEN /\ firings' = (firings (-) SetToBag(old)) (+)
                SetToBag({[f EXCEPT !.pc = "keepAliveFn", !.calls = @ + 1]})
         /\ ev' = [e EXCEPT !.began = began, !.invoked = TRUE]
         /\ Becomes(s)
         /\ UNCHANGED lastRegisterAt
    ELSE /\ firings' = firings (-) SetToBag(old)
         /\ Exhausted(e, f, began, s)

\* The deadline timer id is due: it leaves the pending timers and its callback
\* runs up to its first await.
TimerCallback(id) ==
    /\ id \in DOMAIN timers
    /\ timers[id] = 0
    /\ RoomToArm
    /\ BagCardinality(firings) < MaxFirings
    /\ LET msSinceLastActivity == DateNow - lastActivityTimestamp
           s == [This EXCEPT !.timers = clearTimeout(timers, id)]
       IN  IF inactivityLimitReached(msSinceLastActivity)
           THEN \E mark \in {FALSE, follow /\ ~Followed} :
                    Attempt(Event("timerCallback"), {},
                            [pc |-> "start", attempt |-> 1, wait |-> 0,
                             calls |-> 0, waits |-> 0, lastError |-> NoError,
                             followed |-> mark],
                            TRUE, s)
           ELSE /\ Becomes(finallyBlock(s))
                /\ ev' = Event("timerCallback")
                /\ UNCHANGED <<firings, lastRegisterAt>>
    /\ UNCHANGED <<args, thrown, follow, config, keepAliveFn, stopped, firingAtStop, activitySinceStop>>

\* The awaited keepAliveFn() of the firing f settles, index.ts:221-233 and
\* 195-205.
KeepAliveFnSettles(f) ==
    /\ BagIn(f, firings)
    /\ f.pc = "keepAliveFn"
    /\ RoomToArm
    /\ \E ok \in Outcomes(f) :
         IF ok
         THEN \* return; then registerActivity() and the finally block
              /\ Becomes(finallyBlock(afterKeepAlive(This)))
              /\ lastRegisterAt' = DateNow
              /\ firings' = EndFiring(f)
              /\ ev' = Ended(Event("keepAliveFnSettles"), "success", f)
         ELSE \* catch (err) of index.ts:223-233: lastError = err, console.warn
              LET err == Rejection(f.attempt)
                  e == [Event("keepAliveFnSettles") EXCEPT !.warned = {err}]
                  g == [f EXCEPT !.lastError = err]
              IN  IF waitsBeforeRetry(f.attempt)
                  THEN /\ firings' = EndFiring(f) (+) SetToBag({
                                [g EXCEPT !.pc = "retryDelay",
                                          !.wait = RetryDelay,
                                          !.waits = @ + 1]})
                       /\ ev' = e
                       /\ UNCHANGED <<activityCount, lastActivityTimestamp,
                                      inactivityTimeout, timers, lastRegisterAt>>
                  ELSE Attempt(e, {f}, [g EXCEPT !.attempt = @ + 1], FALSE,
                               This)
    /\ UNCHANGED <<args, thrown, follow, config, keepAliveFn, stopped, firingAtStop, activitySinceStop>>

\* The retry delay of the firing f is over, index.ts:231 and 219.
RetryTimer(f) ==
    /\ BagIn(f, firings)
    /\ f.pc = "retryDelay"
    /\ f.wait = 0
    /\ RoomToArm
    /\ Attempt(Event("retryTimer"), {f}, [f EXCEPT !.attempt = @ + 1], FALSE,
               This)
    /\ UNCHANGED <<args, thrown, follow, config, keepAliveFn, stopped, firingAtStop, activitySinceStop>>

AgedFiring(f) == [f EXCEPT !.wait = Max(@ - 1, 0)]

\* One second passes.
Tick ==
    /\ timers' = [i \in DOMAIN timers |-> Max(timers[i] - 1, 0)]
    /\ firings' = BagOfAll(AgedFiring, firings)
    /\ lastActivityTimestamp' = Aged(lastActivityTimestamp)
    /\ lastRegisterAt' = Aged(lastRegisterAt)
    /\ ev' = Event("tick")
    /\ UNCHANGED <<args, thrown, follow, config, keepAliveFn, activityCount,
                   inactivityTimeout, stopped, firingAtStop,
                   activitySinceStop>>

Next ==
    \/ HostRegisterActivity
    \/ Middleware
    \/ HostStart
    \/ HostResetActivityCount
    \/ HostGetStats
    \/ HostStop
    \/ \E id \in TimerIds : TimerCallback(id)
    \/ \E f \in BagToSet(firings) : KeepAliveFnSettles(f)
    \/ \E f \in BagToSet(firings) : RetryTimer(f)
    \/ Tick

Spec == Init /\ [][Next]_vars

\* The event loop runs every due timer and every settled promise, time
\* passes, and every call of keepAliveFn settles.  The host owes nothing.
Fairness ==
    /\ WF_vars(Tick)
    /\ WF_vars(\E id \in TimerIds : TimerCallback(id))
    /\ WF_vars(\E f \in BagToSet(firings) : KeepAliveFnSettles(f))
    /\ WF_vars(\E f \in BagToSet(firings) : RetryTimer(f))

\* The constructions the liveness properties are about: keepAliveFn always
\* resolves or always rejects, and no instanceName is given.
LiveArgs ==
    {a \in ConstructorArgs :
        a.keepAliveFn \in {"resolves", "rejects", "undefined"}
            /\ a.instanceName = Undefined}

LiveInit == \E a \in LiveArgs : Construct(a) /\ follow = FALSE

LiveSpec == LiveInit /\ [][Next]_vars /\ Fairness

\* The call of keepAliveFn the followed firing awaits settles, its retry
\* delay ends, and the event loop resumes it.
FiringFairness ==
    /\ WF_vars(Tick)
    /\ WF_vars(\E f \in BagToSet(firings) :
                    f.followed /\ KeepAliveFnSettles(f))
    /\ WF_vars(\E f \in BagToSet(firings) : f.followed /\ RetryTimer(f))

\* Whether a firing completes depends on neither inactivityLimit nor
\* instanceName; the shortest limit lets firings overlap soonest, and a
\* keepAliveFn that may resolve or reject at every call covers all the ways
\* a firing can go.
FiringArgs ==
    {a \in ConstructorArgs :
        /\ constructorError(a) = NotThrown
        /\ a.inactivityLimit = Number(1)
        /\ a.keepAliveFn = "either"
        /\ a.instanceName = Undefined}

FiringInit == \E a \in FiringArgs : Construct(a) /\ follow = TRUE

FiringSpec == FiringInit /\ [][Next]_vars /\ FiringFairness

TypeOK ==
    /\ args \in ConstructorArgs
    /\ thrown \in {NotThrown} \cup {constructorError(a) : a \in ConstructorArgs}
    /\ config \in {NoConfig} \cup {constructorConfig(c) : c \in Configs}
    /\ activityCount \in 0..MaxCount
    /\ lastActivityTimestamp \in (0 - config.inactivityLimit)..0
    /\ inactivityTimeout \in TimerIds \cup {null}
    /\ DOMAIN timers \subseteq TimerIds
    /\ \A i \in DOMAIN timers : timers[i] \in 0..config.inactivityLimit
    /\ IsABag(firings)
    /\ BagCardinality(firings) <= MaxFirings

\* ---- claims -----------------------------------------------------------

HostOps == {"registerActivity", "middleware", "start"}

PendingTimers == DOMAIN timers

\* Exactly one deadline timer is pending, it is the one the handle names, and
\* it is due one inactivityLimit from now.
ArmedForFullWindow ==
    \E id \in TimerIds :
        /\ PendingTimers = {id}
        /\ inactivityTimeout = id
        /\ timers[id] = config.inactivityLimit

\* stop() was called while no timer callback was in progress, and the host
\* called neither registerActivity() nor start() since.
StoppedWhileArmed == stopped /\ ~firingAtStop /\ ~activitySinceStop

\* stop() was called while a timer callback was in progress, and the host
\* called neither registerActivity() nor start() since.
StoppedWhileFiring == stopped /\ firingAtStop /\ ~activitySinceStop

\* C1: when keepAliveFn always rejects, a firing that ends in exhaustion has
\* called keepAliveFn exactly maxRetryAttempts + 1 times.
C1_ExhaustedAfterNPlusOneCalls ==
    (keepAliveFn = "rejects" /\ ev.ended = "exhausted")
        => ev.calls = config.maxRetryAttempts[1] + 1

\* C2: construction leaves a deadline timer armed for inactivityLimit; when
\* keepAliveFn always resolves, every run of a deadline timer's callback begins
\* exactly one firing, one inactivityLimit or more after the last activity;
\* the end of a firing leaves a timer armed for a full inactivityLimit; and as
\* long as the host neither stops the scheduler nor keeps calling
\* registerActivity() or start(), firings begin again and again.
C2_FiresOncePerWindowForever ==
    /\ Constructed => ArmedForFullWindow
    /\ [][(keepAliveFn = "resolves" /\ \E id \in TimerIds : TimerCallback(id))
            => /\ ev'.began
               /\ DateNow - lastActivityTimestamp >= config.inactivityLimit
               /\ \/ BagCardinality(firings') = BagCardinality(firings) + 1
                  \/ (ev'.ended = "exhausted" /\ firings' = firings)]_vars
    /\ []((keepAliveFn = "resolves" /\ ev.ended # "no" /\ ~stopped)
            => ArmedForFullWindow)
    /\ []<>(\/ ~Constructed
            \/ keepAliveFn # "resolves"
            \/ stopped
            \/ ev.op \in HostOps
            \/ ev.began)

\* C2 witness: the callback of a deadline timer has just begun a firing of a
\* keepAliveFn that always resolves, on a scheduler that was never stopped.
C2_Witness ==
    /\ keepAliveFn = "resolves"
    /\ ev.op = "timerCallback"
    /\ ev.began
    /\ ev.invoked
    /\ ~stopped
    /\ activityCount = MaxCount

\* C3: a firing never begins earlier than inactivityLimit after the latest
\* call of registerActivity().
C3_NoFiringWithinLimitOfActivity ==
    ev.began => DateNow - lastRegisterAt >= config.inactivityLimit

\* C3 witness: a firing begins while a host-registered activity lies exactly
\* one inactivityLimit back.
C3_Witness ==
    /\ ev.began
    /\ activityCount >= 2
    /\ lastRegisterAt = 0 - config.inactivityLimit
    /\ config.inactivityLimit = MaxLimit

\* C4: every firing that ends in exhaustion on a scheduler that is not stopped
\* leaves the deadline timer armed for a full inactivityLimit; with a
\* keepAliveFn that always rejects the callback of that timer begins a firing;
\* and as long as the host neither stops the scheduler nor keeps calling
\* registerActivity() or start(), firings begin again and again.
C4_KeepsFiringAfterExhaustion ==
    /\ []((ev.ended = "exhausted" /\ ~stopped) => ArmedForFullWindow)
    /\ []((keepAliveFn = "rejects" /\ ev.op = "timerCallback") => ev.began)
    /\ []<>(\/ ~Constructed
            \/ keepAliveFn # "rejects"
            \/ stopped
            \/ ev.op \in HostOps
            \/ ev.began)

\* C4 witness: a firing of an always-rejecting keepAliveFn has just ended in
\* exhaustion after real attempts, and the timer is armed again.
C4_Witness ==
    /\ keepAliveFn = "rejects"
    /\ ev.ended = "exhausted"
    /\ ev.calls >= 1
    /\ ~stopped
    /\ ArmedForFullWindow

\* C5: after stop() with a timer pending and no firing in progress, and no
\* registerActivity() or start() since, no timer is pending, no firing is in
\* progress or begins, and keepAliveFn is not called, however long time runs.
C5_StopWhileArmedEndsFirings ==
    StoppedWhileArmed =>
        /\ PendingTimers = {}
        /\ ~FiringInProgress
        /\ ~ev.began
        /\ ~ev.invoked

\* C5 witness: time has run past inactivityLimit after such a stop().
C5_Witness ==
    /\ StoppedWhileArmed
    /\ ev.op = "tick"
    /\ lastActivityTimestamp = 0 - config.inactivityLimit
    /\ inactivityTimeout = null

\* C6: after stop() during a firing, and no registerActivity() or start()
\* since, no deadline timer is pending: the firing's completion rearms none.
C6_StopDuringFiringPreventsRearm ==
    StoppedWhileFiring => PendingTimers = {}

\* C7: after stop(), until start() is called, no deadline timer is armed and
\* no firing begins, whatever activity is registered.  (Stops made during a
\* firing are left to C6.)
C7_StoppedIgnoresActivity ==
    (stopped /\ ~firingAtStop) => (PendingTimers = {} /\ ~ev.began)

\* C8: a registerActivity() call (direct or through the middleware) that
\* arrives while a firing is in progress updates activityCount and
\* lastActivityTimestamp and leaves the handle and the pending timers as they
\* were.
C8_ActivityDuringFiringKeepsTimers ==
    [][((HostRegisterActivity \/ Middleware) /\ FiringInProgress)
        => (/\ UNCHANGED <<timers, inactivityTimeout, firings>>
            /\ lastActivityTimestamp' = DateNow
            /\ activityCount' = Min(activityCount + 1, MaxCount))]_vars

\* C9: at most one firing is in progress at any time.
C9_AtMostOneFiringInProgress ==
    BagCardinality(firings) <= 1

\* C10: at most one deadline timer is pending, and it is the one the handle
\* inactivityTimeout names.
C10_AtMostOnePendingTimer ==
    /\ Cardinality(PendingTimers) <= 1
    /\ PendingTimers \subseteq {inactivityTimeout}

\* C10 witness: registerActivity() arrived during a firing, after a timer had
\* been armed already, and still exactly one timer is pending.
C10_Witness ==
    /\ ev.op = "registerActivity"
    /\ FiringInProgress
    /\ activityCount = MaxCount
    /\ Cardinality(PendingTimers) = 1

\* C11: no failure of keepAliveFn leaves the timer callback: every rejected
\* attempt is caught and passed to console.warn, every exhausted firing is
\* caught by the callback and passed to console.error, and no step lets an
\* error escape to the host.
C11_FailuresStayInsideCallback ==
    /\ ~ev.escaped
    /\ (ev.ended = "exhausted") => ev.errored # {}
    /\ (ev.op = "keepAliveFnSettles" /\ ev.ended # "success")
          => ev.warned # {}

\* C11 witness: the last attempt of a firing was rejected and the firing ended
\* in exhaustion, both logged.
C11_Witness ==
    /\ ev.op = "keepAliveFnSettles"
    /\ ev.ended = "exhausted"
    /\ ev.calls >= 1
    /\ ev.warned # {}
    /\ ev.errored = ev.warned
    /\ ~ev.escaped

\* What C12 calls an invalid argument: an inactivityLimit that is zero or
\* negative, a keepAliveFn that is missing or not callable, or a
\* maxRetryAttempts that is given and negative.
ClaimedInvalid(a) ==
    \/ (a.inactivityLimit.type = "number" /\ a.inactivityLimit.value <= 0)
    \/ a.keepAliveFn \in {"undefined", "notAFunction"}
    \/ (a.maxRetryAttempts.type = "number" /\ a.maxRetryAttempts.value < 0)

\* C12: construction from such an argument throws HibernotError, arms no
\* timer, and no firing or call of keepAliveFn follows, whatever time passes.
C12_InvalidConfigThrowsAndArmsNothing ==
    ClaimedInvalid(args) =>
        /\ thrown.name = "HibernotError"
        /\ PendingTimers = {}
        /\ inactivityTimeout = null
        /\ firings = EmptyBag
        /\ ~ev.began
        /\ ~ev.invoked

\* C12 witness: time passes after the constructor rejected inactivityLimit 0.
C12_Witness ==
    /\ args.inactivityLimit = Number(0)
    /\ args.keepAliveFn = "resolves"
    /\ args.maxRetryAttempts = Missing
    /\ thrown.name = "HibernotError"
    /\ ev.op = "tick"

\* C13: the step in which a firing ends successfully counts as exactly one
\* activity: activityCount grows by one (while the bounded counter has room),
\* lastActivityTimestamp is the time of completion, and the one pending
\* deadline timer is due a full inactivityLimit after completion.
C13_SuccessIsOneActivity ==
    [][(ev'.op = "keepAliveFnSettles" /\ ev'.ended = "success") =>
            /\ activityCount < MaxCount => activityCount' = activityCount + 1
            /\ activityCount' >= activityCount
            /\ lastActivityTimestamp' = DateNow
            /\ lastRegisterAt' = DateNow
            /\ ArmedForFullWindow']_vars

\* C13 witness: a firing has just succeeded and the count stands at 2.
C13_Witness ==
    /\ ev.op = "keepAliveFnSettles"
    /\ ev.ended = "success"
    /\ activityCount = 2
    /\ lastActivityTimestamp = DateNow
    /\ ArmedForFullWindow

\* C14: when maxRetryAttempts is at least 1 and keepAliveFn rejects its first
\* call and resolves its second, every firing ends in success, after exactly
\* two calls of keepAliveFn and exactly one retry delay.
C14_SecondAttemptSucceeds ==
    (/\ keepAliveFn = "failsFirst"
     /\ config.maxRetryAttempts # Undefined
     /\ config.maxRetryAttempts[1] >= 1
     /\ ev.ended # "no") =>
        /\ ev.ended = "success"
        /\ ev.calls = 2
        /\ ev.waits = 1

\* C15: activityCount is the number of runs of registerActivity() (by the
\* host, by the middleware handler, by a successful firing) since the
\* construction or since the last resetActivityCount().
\* That is: it is 0 when the constructor returns, a step that runs
\* registerActivity() adds one to it (while the bounded counter has room),
\* resetActivityCount() makes it 0, and no other step changes it.
C15_CountIsNumberOfRegisterCalls ==
    /\ Constructed => activityCount = 0
    /\ [][activityCount' =
            IF \/ ev'.op \in {"registerActivity", "middleware"}
               \/ (ev'.op = "keepAliveFnSettles" /\ ev'.ended = "success")
            THEN Min(activityCount + 1, MaxCount)
            ELSE IF ev'.op = "resetActivityCount" THEN 0
            ELSE activityCount]_vars

\* C16: resetActivityCount() sets activityCount to 0 and changes neither
\* lastActivityTimestamp, nor the handle, nor the pending timers and their
\* deadlines, nor the firings in progress.
C16_ResetActivityCountFrame ==
    [][ev'.op = "resetActivityCount" =>
            /\ activityCount' = 0
            /\ UNCHANGED <<lastActivityTimestamp, inactivityTimeout, timers,
                           firings, config>>]_vars

\* C16 witness: the count was reset while a retry loop was in progress and a
\* deadline timer was pending.
C16_Witness ==
    /\ ev.op = "resetActivityCount"
    /\ activityCount = 0
    /\ FiringInProgress
    /\ PendingTimers # {}
    /\ lastActivityTimestamp < DateNow

\* C17: in every state stop() followed by stop() leaves what one stop()
\* leaves, and that is a state with no pending deadline timer and an empty
\* handle; a stop() that follows a stop() changes nothing, and no stop()
\* throws.
C17_StopIsIdempotent ==
    /\ [](Constructed =>
            /\ stop(stop(This)) = stop(This)
            /\ stop(This).timers = NoTimers
            /\ stop(This).inactivityTimeout = null)
    /\ [](ev.op = "stop" =>
            /\ PendingTimers = {}
            /\ inactivityTimeout = null
            /\ ~ev.escaped
            /\ ev.errored = {})
    /\ [][(ev'.op = "stop" /\ ev'.again) =>
            UNCHANGED <<activityCount, lastActivityTimestamp,
                        inactivityTimeout, timers, firings, config>>]_vars

\* C17 witness: stop() was called twice in succession while a firing was in
\* progress.
C17_Witness ==
    /\ ev.op = "stop"
    /\ ev.again
    /\ FiringInProgress
    /\ PendingTimers = {}
    /\ inactivityTimeout = null

\* C18: lastActivityTimestamp never decreases: a step that lets time pass
\* leaves the stored instant where it is (it is one second older, no more),
\* and every other step leaves it or moves it forward.
C18_TimestampNeverDecreases ==
    [][IF ev'.op = "tick"
       THEN lastActivityTimestamp' = Aged(lastActivityTimestamp)
       ELSE lastActivityTimestamp' >= lastActivityTimestamp]_vars

\* C18 witness: the host registered an activity some time after the previous
\* one, while a firing was in progress.
C18_Witness ==
    /\ ev.op = "registerActivity"
    /\ lastActivityTimestamp = DateNow
    /\ FiringInProgress

\* The label of the instance: its instanceName, and 'Unnamed' when none, or
\* an empty one, was configured.
Label ==
    IF config.instanceName \in {Undefined, Given("")} THEN "Unnamed"
    ELSE config.instanceName[1]

\* C19: getStats() returns the activityCount and the lastActivityTimestamp of
\* the state it is called in, and the label; it changes no field, no pending
\* timer and no firing in progress.
C19_GetStatsReadsOnly ==
    [][ev'.op = "getStats" =>
            /\ ev'.returned = {[activityCount |-> activityCount,
                                lastActivityTimestamp |-> lastActivityTimestamp,
                                instanceName |-> Label]}
            /\ UNCHANGED <<activityCount, lastActivityTimestamp,
                           inactivityTimeout, timers, firings, config>>]_vars

\* C19 witness: getStats() of an instance named API was called during a
\* firing, some time after the last activity.
C19_Witness ==
    /\ ev.op = "getStats"
    /\ FiringInProgress
    /\ ev.returned = {[activityCount |-> 1,
                       lastActivityTimestamp |-> 0 - 1,
                       instanceName |-> "API"]}

\* C20: the handler middleware() returns calls registerActivity() and then
\* next, each once and nothing else, and leaves the state one
\* registerActivity() leaves, in whatever state it is invoked.
C20_MiddlewareRegistersThenNext ==
    [][ev'.op = "middleware" =>
            /\ ev'.called = <<"registerActivity", "next">>
            /\ [activityCount |-> activityCount',
                lastActivityTimestamp |-> lastActivityTimestamp',
                inactivityTimeout |-> inactivityTimeout',
                timers |-> timers'] = registerActivity(This)
            /\ UNCHANGED <<firings, config>>]_vars

\* C20 witness: a request passed the handler after stop(), while a firing was
\* in progress.
C20_Witness ==
    /\ ev.op = "middleware"
    /\ ev.called = <<"registerActivity", "next">>
    /\ stopped
    /\ FiringInProgress
    /\ ArmedForFullWindow

\* C21: within a firing every failed attempt but the last is followed by one
\* retry delay, awaited in full before the next attempt, and the last failed
\* attempt by none: a firing waiting for keepAliveFn has waited once less than
\* it has called, a firing in a retry delay as often as it has called and has
\* an attempt left, and a firing that ended after at least one call has waited
\* once less than it called.
C21_OneDelayBetweenAttempts ==
    /\ \A f \in BagToSet(firings) :
            /\ f.pc = "keepAliveFn" => f.waits = f.calls - 1
            /\ f.pc = "retryDelay" =>
                    /\ f.waits = f.calls
                    /\ f.attempt < maxAttempts
                    /\ f.wait \in 0..RetryDelay
    /\ (ev.op = "keepAliveFnSettles" /\ ev.warned # {} /\ ev.ended = "no") =>
            \E f \in BagToSet(firings) :
                f.pc = "retryDelay" /\ f.wait = RetryDelay
    /\ (ev.op = "retryTimer") => ev.invoked
    /\ (ev.ended # "no" /\ ev.calls >= 1) => ev.waits = ev.calls - 1

\* C21 witness: a firing was exhausted by its third failed attempt, after two
\* retry delays.
C21_Witness ==
    /\ ev.op = "keepAliveFnSettles"
    /\ ev.ended = "exhausted"
    /\ ev.calls = 3
    /\ ev.waits = 2

\* C22: whatever maxRetryAttempts is, the error the timer callback catches
\* when a firing is exhausted is the rejection of the last call of keepAliveFn
\* the firing made.
C22_ExhaustionSurfacesLastFailure ==
    (ev.ended = "exhausted") =>
        /\ ev.calls >= 1
        /\ ev.errored = {Rejection(ev.calls)}

\* C23: every pending deadline timer is due no earlier than inactivityLimit
\* after lastActivityTimestamp, so the callback of a deadline timer always
\* finds the limit reached and begins a firing.
C23_RecheckNeverFalse ==
    /\ \A id \in PendingTimers :
            timers[id] + (DateNow - lastActivityTimestamp)
                >= config.inactivityLimit
    /\ (ev.op = "timerCallback") => ev.began

\* C23 witness: the callback of a deadline timer ran while another firing was
\* still in progress, and began a firing.
C23_Witness ==
    /\ ev.op = "timerCallback"
    /\ ev.began
    /\ BagCardinality(firings) = 2
    /\ DateNow - lastActivityTimestamp >= config.inactivityLimit

\* C24: no step of a firing that does not succeed records an activity: the
\* callback that begins it, a failed attempt and the end of a retry delay
\* leave activityCount and lastActivityTimestamp as they are, and the step
\* that ends the firing in exhaustion does nothing but rearm the deadline
\* timer for a full inactivityLimit.
C24_ExhaustionRecordsNoActivity ==
    [][(\/ ev'.op \in {"timerCallback", "retryTimer"}
        \/ (ev'.op = "keepAliveFnSettles" /\ ev'.ended # "success")) =>
            /\ UNCHANGED <<activityCount, lastActivityTimestamp, lastRegisterAt>>
            /\ ev'.ended = "exhausted" => ArmedForFullWindow']_vars

\* C24 witness: a firing of three attempts has just ended in exhaustion; the
\* count is the initial one and the last activity lies a full limit back.
C24_Witness ==
    /\ ev.ended = "exhausted"
    /\ ev.calls = 3
    /\ activityCount = 1
    /\ lastActivityTimestamp = 0 - config.inactivityLimit
    /\ ArmedForFullWindow

\* C25: as long as stop() has not been called (or start() has been called
\* since), a deadline timer is pending or a timer callback is in progress.
C25_NeverIdleUnlessStopped ==
    (Constructed /\ ~stopped) => (PendingTimers # {} \/ FiringInProgress)

\* C25 witness: on a scheduler never stopped no timer is pending, because the
\* callback of the one that fired is awaiting keepAliveFn.
C25_Witness ==
    /\ Constructed
    /\ ~stopped
    /\ ~activitySinceStop
    /\ PendingTimers = {}
    /\ FiringInProgress
    /\ ev.op = "timerCallback"

\* C26: when every call of keepAliveFn settles, every firing completes after
\* a bounded number of attempts, and the step that completes it has rearmed
\* the deadline timer: no firing is ever in an attempt beyond maxAttempts;
\* whichever firing is followed, it ends; and a step that ends a firing
\* leaves the timer armed for a full inactivityLimit.
C26_EveryFiringCompletes ==
    /\ [](\A f \in BagToSet(firings) :
            f.attempt \in 1..maxAttempts /\ f.calls <= maxAttempts)
    /\ [](ev.ended # "no" => ArmedForFullWindow)
    /\ []<>(~Followed)

\* C26 witness: the followed firing is in the retry delay after its second
\* failed attempt while another firing is in progress.
C26_Witness ==
    /\ BagCardinality(firings) = 2
    /\ \E f \in BagToSet(firings) :
            f.followed /\ f.pc = "retryDelay" /\ f.attempt = 2

\* C27: start() leaves exactly one deadline timer pending, due one
\* inactivityLimit from now, and changes neither activityCount nor
\* lastActivityTimestamp nor the firings in progress; the callback of a timer
\* of a scheduler that is not stopped begins a firing; and, after a stop()
\* too, once start() has been called firings begin again and again as long as
\* the host neither stops the scheduler nor keeps calling registerActivity()
\* or start().
C27_StartRearmsOnly ==
    /\ [][ev'.op = "start" =>
            /\ ArmedForFullWindow'
            /\ ~stopped'
            /\ UNCHANGED <<activityCount, lastActivityTimestamp, firings,
                           config>>]_vars
    /\ []((~stopped /\ ev.op = "timerCallback") => ev.began)
    /\ []<>(\/ ~Constructed
            \/ stopped
            \/ ev.op \in HostOps
            \/ ev.began)

\* C27 witness: start() was called after stop(), some time after the last
\* activity, while a timer armed since the stop() was pending.
C27_Witness ==
    /\ ev.op = "start"
    /\ ev.afterStop
    /\ activitySinceStop = FALSE
    /\ ArmedForFullWindow
    /\ lastActivityTimestamp < DateNow
    /\ activityCount = 1

====
